---- MODULE Spec2Model ----
(***************************************************************************)
(* Model of the notebook "docs/notebooks/Add new ecoinvent version.ipynb". *)
(*                                                                         *)
(* The notebook is executed top to bottom.  Every code cell is one or more *)
(* actions; every call into bw2data, bw2io, ecoinvent_interface or rower   *)
(* is recorded in `calls` and either returns or raises.  A raised          *)
(* exception (or the failed assertion of the verification cell) ends the   *)
(* run in pc = "failed".  The project store and the databases survive a    *)
(* run; Rerun executes the notebook again on what the last run left.       *)
(***************************************************************************)
EXTENDS Naturals, Sequences, FiniteSets, TLC

VARIABLES
    pc,           \* the statement the kernel executes next
    i,            \* position of the running for-loop in SystemModels
    projects,     \* bd.projects: names of the registered projects
    current,      \* bd.projects.current
    dbs,          \* project directory -> (database name -> set of records)
    definitions,  \* what update_ecoinvent_definitions was last given
    my_settings,  \* notebook variable my_settings
    release,      \* notebook variable release
    db_name,      \* notebook variable db_name
    locations,    \* notebook variable locations
    calls,        \* external calls made by the running execution, in order
    out,          \* lines printed by the running execution
    error,        \* the exception that ended the running execution
    run,          \* number of the running execution
    startExists,  \* was PROJECT registered when this execution started
    prev          \* the execution before this one: how it ended, the calls
                  \* of a completed one, the databases it left in PROJECT

store == <<projects, current, dbs>>
locals == <<my_settings, release, db_name, locations>>
vars == <<pc, i, projects, current, dbs, definitions, my_settings, release,
          db_name, locations, calls, out, error, run, startExists, prev>>

---------------------------------------------------------------------------
(* Bounds of the model. *)

\* number of executions of the notebook in one behaviour
MaxRuns == 2
\* number of records an imported database can hold
MaxRecords == 2

---------------------------------------------------------------------------
(* Literals of the notebook.  A definition named X_<variant> is a faulty    *)
(* variant of X: the properties below are shown to fail when X is          *)
(* replaced by it.                                                         *)

delete_off == FALSE
delete == TRUE

delete_dir_off == FALSE
delete_dir == TRUE

PROJECT == "RoW generation"

VERSION == "3.8"

SystemModels_repeated == <<"cutoff", "apos", "consequential", "cutoff">>
SystemModels_swapped == <<"apos", "cutoff", "consequential">>
SystemModels == <<"cutoff", "apos", "consequential">>

lcia == FALSE

\* the f-string f"ecoinvent-{VERSION}-{system_model}"
DbName(version, system_model) == "ecoinvent-" \o version \o "-" \o system_model

\* the list comprehension handed to update_ecoinvent_definitions
UpdateArgument_reversed ==
    [k \in 1..Len(SystemModels) |->
        DbName(VERSION, SystemModels[Len(SystemModels) + 1 - k])]
UpdateArgument ==
    [k \in 1..Len(SystemModels) |-> DbName(VERSION, SystemModels[k])]

\* Python's repr of a bool, as it appears in an argument list
PyBool(b) == IF b THEN "True" ELSE "False"

---------------------------------------------------------------------------
(* Location codes are sequences of characters; str.lower() maps each       *)
(* upper-case letter to its lower-case letter and keeps the rest.          *)

LowerChar(c) ==
    CASE c = "R" -> "r"
      [] c = "E" -> "e"
      [] c = "G" -> "g"
      [] c = "L" -> "l"
      [] c = "O" -> "o"
      [] c = "C" -> "c"
      [] c = "H" -> "h"
      [] OTHER -> c

Lower(s) == [k \in 1..Len(s) |-> LowerChar(s[k])]

roe == <<"r", "o", "e">>

\* the location codes the records of an imported database can carry
LocationCodes == << <<"R", "o", "E">>, roe, <<"G", "L", "O">>, <<"C", "H">> >>

RecordPool ==
    { [id |-> k, location |-> LocationCodes[((k - 1) % Len(LocationCodes)) + 1]] :
        k \in 1..MaxRecords }

\* what an import can leave in a database: any set of records of the pool
Contents == SUBSET RecordPool

ProjectNames == {"default", "RoW generation"}

NoDatabases == [n \in {} |-> {}]

\* the records of database `name` in the current project (none if absent)
Records(name) ==
    IF name \in DOMAIN dbs[current] THEN dbs[current][name] ELSE {}

\* the set comprehension {ds['location'].lower() for ds in bd.Database(db_name)}
LocationSet_padded(name) == {Lower(ds.location) : ds \in Records(name)} \cup {roe}
LocationSet(name) == {Lower(ds.location) : ds \in Records(name)}

\* a database directory with database `name` written
Write(d, name, content) ==
    [n \in DOMAIN d \cup {name} |-> IF n = name THEN content ELSE d[n]]

---------------------------------------------------------------------------
(* The record kept of one external call. *)

(* obj is the module or object the call is made on, fn the function, args  *)
(* the arguments as written, cur the current project when the call is     *)
(* made, ok whether the call returned (TRUE) or raised (FALSE).            *)
Call(obj, fn, args, ok) ==
    [obj |-> obj, fn |-> fn, args |-> args, cur |-> current, ok |-> ok]

\* the membership test `name in bd.projects`
Registered_always(name) == TRUE
Registered(name) == name \in projects

\* an exception is handled nowhere: it ends the execution
Raise_retry(e) == /\ pc' = pc
                  /\ error' = e
Raise(e) == /\ pc' = "failed"
            /\ error' = e

Init ==
    /\ pc = "if_delete"
    /\ i = 1
    /\ projects \in {{"default"}, {"default", PROJECT}}
    /\ current = "default"
    \* a registered project is empty or holds what an interrupted execution left
    /\ \E left \in {NoDatabases,
                    Write(NoDatabases, DbName(VERSION, SystemModels[1]), RecordPool)} :
          dbs = [p \in ProjectNames |->
                    IF p = PROJECT /\ PROJECT \in projects THEN left
                    ELSE NoDatabases]
    /\ definitions = <<>>
    /\ my_settings = "unset"
    /\ release = "unset"
    /\ db_name = "unset"
    /\ locations = {}
    /\ calls = <<>>
    /\ out = <<>>
    /\ error = "none"
    /\ run = 1
    /\ startExists = (PROJECT \in projects)
    /\ prev = [status |-> "none", calls |-> <<>>, dbs |-> {}]

---------------------------------------------------------------------------
(* Cell 3, line 30: if delete and "RoW generation" in bd.projects *)
IfDelete ==
    /\ pc = "if_delete"
    /\ IF ~delete
       THEN /\ pc' = "set_current"
            /\ UNCHANGED <<calls, error>>
       ELSE \E ok \in BOOLEAN :
            /\ calls' = Append(calls, Call("bd.projects", "__contains__",
                                           <<PROJECT>>, ok))
            /\ IF ~ok THEN Raise("exception")
               ELSE /\ pc' = IF Registered(PROJECT) THEN "delete_project"
                                                     ELSE "set_current"
                    /\ UNCHANGED error
    /\ UNCHANGED <<i, store, definitions, locals, out, run, startExists, prev>>

(* Cell 3, line 31: bd.projects.delete_project("RoW generation", True).     *)
(* The project is unregistered; its directory goes with it when delete_dir *)
(* is set; deleting the current project makes "default" the current one.   *)
DeleteProject ==
    /\ pc = "delete_project"
    /\ \E ok \in BOOLEAN :
        /\ calls' = Append(calls, Call("bd.projects", "delete_project",
                                       <<PROJECT, PyBool(delete_dir)>>, ok))
        /\ IF ~ok
           THEN /\ Raise("exception")
                /\ UNCHANGED store
           ELSE /\ projects' = projects \ {PROJECT}
                /\ dbs' = IF delete_dir THEN [dbs EXCEPT ![PROJECT] = NoDatabases]
                                        ELSE dbs
                /\ current' = IF current = PROJECT THEN "default" ELSE current
                /\ pc' = "set_current"
                /\ UNCHANGED error
    /\ UNCHANGED <<i, definitions, locals, out, run, startExists, prev>>

(* Cell 4, line 40: bd.projects.set_current("RoW generation"); the project *)
(* is created when it is not registered.                                   *)
SetCurrent ==
    /\ pc = "set_current"
    /\ \E ok \in BOOLEAN :
        /\ calls' = Append(calls, Call("bd.projects", "set_current",<<PROJECT>>, ok))
        /\ IF ~ok
           THEN /\ Raise("exception")
                /\ UNCHANGED store
           ELSE /\ projects' = projects \cup {PROJECT}
                /\ current' = PROJECT
                /\ pc' = "settings"
                /\ UNCHANGED <<dbs, error>>
    /\ UNCHANGED <<i, definitions, locals, out, run, startExists, prev>>

(* Cell 5, line 49: my_settings = Settings() *)
NewSettings ==
    /\ pc = "settings"
    /\ \E ok \in BOOLEAN :
        /\ calls' = Append(calls, Call("ecoinvent_interface", "Settings",<<>>, ok))
        /\ IF ~ok
           THEN /\ Raise("exception")
                /\ UNCHANGED my_settings
           ELSE /\ my_settings' = "Settings()"
                /\ pc' = "release"
                /\ UNCHANGED error
    /\ UNCHANGED <<i, store, definitions, release, db_name, locations, out, run,
                   startExists, prev>>

\* the argument list of the client's constructor
ReleaseArguments_none == <<>>
ReleaseArguments == <<"my_settings">>

(* Cell 5, line 50: release = EcoinventRelease(my_settings) *)
NewRelease ==
    /\ pc = "release"
    /\ \E ok \in BOOLEAN :
        /\ calls' = Append(calls, Call("ecoinvent_interface", "EcoinventRelease",
                                       ReleaseArguments, ok))
        /\ IF ~ok
           THEN /\ Raise("exception")
                /\ UNCHANGED <<release, i>>
           ELSE /\ release' = "EcoinventRelease(" \o my_settings \o ")"
                /\ pc' = "import"
                /\ i' = 1
                /\ UNCHANGED error
    /\ UNCHANGED <<store, definitions, my_settings, db_name, locations, out, run,
                   startExists, prev>>

(* Cell 7, lines 68-73: one iteration of the import loop.  A successful    *)
(* import leaves database ecoinvent-<version>-<system_model> in the        *)
(* current project.                                                        *)
Import ==
    /\ pc = "import"
    /\ LET system_model == SystemModels[i] IN
       \E ok \in BOOLEAN :
        /\ calls' = Append(calls, Call("bi", "import_ecoinvent_release",
                                       <<VERSION, system_model, PyBool(lcia)>>, ok))
        /\ IF ~ok
           THEN /\ Raise("exception")
                /\ UNCHANGED <<dbs, i>>
           ELSE /\ \E content \in Contents :
                     dbs' = [dbs EXCEPT ![current] =
                                Write(@, DbName(VERSION, system_model), content)]
                /\ IF i < Len(SystemModels)
                   THEN /\ i' = i + 1
                        /\ pc' = "import"
                   ELSE /\ i' = 1
                        /\ pc' = "read"
                /\ UNCHANGED error
    /\ UNCHANGED <<projects, current, definitions, locals, out, run, startExists, prev>>

\* bd.Database(name) opens a database for reading: directory d stays as it is
Opened_registering(d, name) == Write(d, name, {})
Opened(d, name) == d

(* Cell 8, lines 83-84: db_name and locations of one iteration *)
ReadLocations ==
    /\ pc = "read"
    /\ LET name == DbName(VERSION, SystemModels[i]) IN
        /\ db_name' = name
        /\ \E ok \in BOOLEAN :
            /\ calls' = Append(calls, Call("bd.Database", "__iter__", <<name>>, ok))
            /\ IF ~ok
               THEN /\ Raise("exception")
                    /\ UNCHANGED <<locations, dbs>>
               ELSE /\ locations' = LocationSet(name)
                    /\ dbs' = [dbs EXCEPT ![current] = Opened(@, name)]
                    /\ pc' = "assert"
                    /\ UNCHANGED error
    /\ UNCHANGED <<i, projects, current, definitions, my_settings, release, out,
                   run, startExists, prev>>

(* Cell 8, line 85: assert locations *)
AssertLocations ==
    /\ pc = "assert"
    /\ IF locations = {}
       THEN Raise("AssertionError")
       ELSE /\ pc' = "print"
            /\ UNCHANGED error
    /\ UNCHANGED <<i, store, definitions, locals, calls, out, run, startExists, prev>>

(* Cell 8, line 86: print(db_name, 'roe' in locations, len(bd.Database(db_name))) *)
PrintSummary ==
    /\ pc = "print"
    /\ \E ok \in BOOLEAN :
        /\ calls' = Append(calls, Call("bd.Database", "__len__",<<db_name>>, ok))
        /\ IF ~ok
           THEN /\ Raise("exception")
                /\ UNCHANGED <<out, i>>
           ELSE /\ out' = Append(out, <<db_name, roe \in locations,
                                        Cardinality(Records(db_name))>>)
                /\ IF i < Len(SystemModels)
                   THEN /\ i' = i + 1
                        /\ pc' = "read"
                   ELSE /\ i' = 1
                        /\ pc' = "update"
                /\ UNCHANGED error
    /\ UNCHANGED <<store, definitions, locals, run, startExists, prev>>

(* Cell 10, lines 102-105: update_ecoinvent_definitions([...]) *)
Update ==
    /\ pc = "update"
    /\ \E ok \in BOOLEAN :
        /\ calls' = Append(calls, Call("rower.updating", "update_ecoinvent_definitions",
                                       UpdateArgument, ok))
        /\ IF ~ok
           THEN /\ Raise("exception")
                /\ UNCHANGED definitions
           ELSE /\ definitions' = UpdateArgument
                /\ pc' = "done"
                /\ UNCHANGED error
    /\ UNCHANGED <<i, store, locals, out, run, startExists, prev>>

(* The notebook is executed again from its first cell, in the same kernel  *)
(* or in a restarted one, on the project store the last execution left.    *)
Rerun ==
    /\ pc \in {"done", "failed"}
    /\ run < MaxRuns
    /\ run' = run + 1
    /\ prev' = [status |-> pc,
                calls |-> IF pc = "done" THEN calls ELSE <<>>,
                dbs |-> DOMAIN dbs[PROJECT]]
    /\ pc' = "if_delete"
    /\ i' = 1
    /\ calls' = <<>>
    /\ out' = <<>>
    /\ error' = "none"
    /\ startExists' = (PROJECT \in projects)
    /\ \E restart \in BOOLEAN :
        IF restart
        THEN /\ current' = "default"
             /\ my_settings' = "unset"
             /\ release' = "unset"
             /\ db_name' = "unset"
             /\ locations' = {}
        ELSE UNCHANGED <<current, locals>>
    /\ UNCHANGED <<projects, dbs, definitions>>

\* one statement of the running execution
Step ==
    \/ IfDelete
    \/ DeleteProject
    \/ SetCurrent
    \/ NewSettings
    \/ NewRelease
    \/ Import
    \/ ReadLocations
    \/ AssertLocations
    \/ PrintSummary
    \/ Update

Next == Step \/ Rerun

Spec == Init /\ [][Next]_vars

\* an execution that has started runs to its end: the kernel executes the
\* cells one after the other and every external call returns or raises
FairSpec == Spec /\ WF_vars(Step)

---------------------------------------------------------------------------
(* Vocabulary of the properties. *)

IsImport(c) == c.obj = "bi" /\ c.fn = "import_ecoinvent_release"
IsRead(c) == c.obj = "bd.Database" /\ c.fn = "__iter__"
IsCount(c) == c.obj = "bd.Database" /\ c.fn = "__len__"
IsUpdate(c) == c.obj = "rower.updating" /\ c.fn = "update_ecoinvent_definitions"
IsDelete(c) == c.obj = "bd.projects" /\ c.fn = "delete_project"
IsSelect(c) == c.obj = "bd.projects" /\ c.fn = "set_current"
IsSettings(c) == c.obj = "ecoinvent_interface" /\ c.fn = "Settings"
IsClient(c) == c.obj = "ecoinvent_interface" /\ c.fn = "EcoinventRelease"

\* the call is made on the client, or the client is handed to it
UsesClient(c) == c.obj = "release" \/ \E j \in DOMAIN c.args : c.args[j] = "release"

\* a call without the circumstances it was made in
Signature(c) == <<c.obj, c.fn, c.args>>
Signatures(s) == [k \in DOMAIN s |-> Signature(s[k])]

\* the positions of the calls of one kind
Positions(Kind(_)) == {k \in DOMAIN calls : Kind(calls[k])}

ThreeNames == <<"ecoinvent-3.8-cutoff", "ecoinvent-3.8-apos",
                "ecoinvent-3.8-consequential">>

Succeeded == pc = "done"

---------------------------------------------------------------------------
(* C1: in a run in which no external call fails the import routine is      *)
(* called exactly three times, for "cutoff", "apos" and "consequential" in *)
(* that order, each time with version "3.8" and lcia False; no label is    *)
(* imported twice and none outside the list.                               *)
C1_ThreeImportsInOrder ==
    Succeeded =>
        LET imports == SelectSeq(calls, IsImport) IN
        /\ Len(imports) = 3
        /\ imports[1].args = <<"3.8", "cutoff", "False">>
        /\ imports[2].args = <<"3.8", "apos", "False">>
        /\ imports[3].args = <<"3.8", "consequential", "False">>
        /\ \A k \in 1..3 : imports[k].ok

C1_Witness ==
    /\ Succeeded
    /\ Cardinality(Positions(IsImport)) = 3

(* C2: in a successful run the region-definition updater is called exactly *)
(* once, as the last call; whenever it is called, the three imports and    *)
(* the three read-backs of the run have completed; its argument is the     *)
(* list of the three database names, which are the names the verification  *)
(* read back, in the same order.                                           *)
C2_UpdateOnceAfterVerification ==
    /\ \A k \in Positions(IsUpdate) :
        /\ calls[k].args = ThreeNames
        /\ Cardinality({j \in Positions(IsImport) : j < k /\ calls[j].ok}) = 3
        /\ Cardinality({j \in Positions(IsRead) : j < k /\ calls[j].ok}) = 3
        /\ Cardinality({j \in Positions(IsCount) : j < k /\ calls[j].ok}) = 3
        /\ Len(out) = 3
        /\ LET reads == SelectSeq(calls, IsRead) IN
               calls[k].args = [n \in 1..3 |-> reads[n].args[1]]
        /\ LET imports == SelectSeq(calls, IsImport) IN
               calls[k].args = [n \in 1..3 |-> DbName(imports[n].args[1],
                                                      imports[n].args[2])]
    /\ Succeeded => /\ Positions(IsUpdate) = {Len(calls)}
                    /\ definitions = ThreeNames

C2_Witness ==
    /\ Succeeded
    /\ Positions(IsUpdate) # {}

(* C3: the verification step builds, for each database name, the set of    *)
(* the lower-cased location codes of the database's records and asserts    *)
(* that it is not empty.  If a database holds no record the assertion      *)
(* fails at that database: no later database is read and the updater is    *)
(* not called in that run.                                                 *)
UpperCase == {"R", "E", "G", "L", "O", "C", "H"}
CasePairs == {<<"R", "r">>, <<"E", "e">>, <<"G", "g">>, <<"L", "l">>,
              <<"O", "o">>, <<"C", "c">>, <<"H", "h">>}
IsLowerOf(l, s) ==
    /\ Len(l) = Len(s)
    /\ \A k \in 1..Len(s) : l[k] = s[k] \/ <<s[k], l[k]>> \in CasePairs
    /\ \A k \in 1..Len(l) : l[k] \notin UpperCase

C3_AssertNonEmptyLocations ==
    /\ pc \in {"assert", "print"} =>
        /\ db_name = ThreeNames[i]
        /\ \A l \in locations : \E ds \in Records(db_name) : IsLowerOf(l, ds.location)
        /\ \A ds \in Records(db_name) : \E l \in locations : IsLowerOf(l, ds.location)
    /\ pc = "print" => Records(db_name) # {}
    /\ pc \in {"update", "done"} => \A k \in 1..3 : Records(ThreeNames[k]) # {}
    /\ Positions(IsUpdate) # {} => \A k \in 1..3 : Records(ThreeNames[k]) # {}
    /\ error = "AssertionError" =>
        /\ pc = "failed"
        /\ Records(db_name) = {}
        /\ db_name = ThreeNames[i]
        /\ IsRead(calls[Len(calls)]) /\ calls[Len(calls)].args = <<db_name>>
        /\ \A k \in Positions(IsRead) : \E n \in 1..i : calls[k].args = <<ThreeNames[n]>>
        /\ Positions(IsUpdate) = {}

C3_Witness ==
    /\ error = "AssertionError"
    /\ i = 2
    /\ Records(ThreeNames[1]) # {}
    /\ Records(ThreeNames[3]) # {}

(* C4: a failing external call ends the run at that call: it is the last   *)
(* call of the run (no later call, no retry), and what the calls before it *)
(* did is still in place.                                                  *)
C4_FailureAborts ==
    /\ \A k \in DOMAIN calls : ~calls[k].ok => k = Len(calls) /\ pc = "failed"
    /\ pc = "failed" /\ error = "exception" => ~calls[Len(calls)].ok
    /\ pc = "failed" =>
        /\ \A k \in Positions(IsImport) :
               calls[k].ok => DbName(calls[k].args[1], calls[k].args[2])
                                  \in DOMAIN dbs[PROJECT]
        /\ (\E k \in Positions(IsSelect) : calls[k].ok) =>
               PROJECT \in projects /\ current = PROJECT
        /\ (/\ \E k \in Positions(IsDelete) : calls[k].ok
            /\ \A k \in Positions(IsSelect) : ~calls[k].ok) =>
               PROJECT \notin projects /\ current # PROJECT
        /\ (\E k \in Positions(IsSettings) : calls[k].ok) => my_settings = "Settings()"

C4_Witness ==
    /\ pc = "failed"
    /\ error = "exception"
    /\ IsImport(calls[Len(calls)])
    /\ Cardinality(Positions(IsImport)) = 3

(* C5 as stated: the sequence of external calls of a run does not depend   *)
(* on the project store the run starts from, so two successful runs, one   *)
(* after the other, make the same calls.                                   *)
C5_SameCallsFromEveryStore ==
    Succeeded /\ prev.status = "done" =>
        Signatures(calls) = Signatures(prev.calls)

\* the calls of a successful run that found (or did not find) the project
ExpectedCalls(existed) ==
    << <<"bd.projects", "__contains__", <<"RoW generation">> >> >>
    \o (IF existed
        THEN << <<"bd.projects", "delete_project", <<"RoW generation", "True">> >> >>
        ELSE << >>)
    \o << <<"bd.projects", "set_current", <<"RoW generation">> >>,
          <<"ecoinvent_interface", "Settings", << >> >>,
          <<"ecoinvent_interface", "EcoinventRelease", <<"my_settings">> >>,
          <<"bi", "import_ecoinvent_release", <<"3.8", "cutoff", "False">> >>,
          <<"bi", "import_ecoinvent_release", <<"3.8", "apos", "False">> >>,
          <<"bi", "import_ecoinvent_release", <<"3.8", "consequential", "False">> >>,
          <<"bd.Database", "__iter__", <<"ecoinvent-3.8-cutoff">> >>,
          <<"bd.Database", "__len__", <<"ecoinvent-3.8-cutoff">> >>,
          <<"bd.Database", "__iter__", <<"ecoinvent-3.8-apos">> >>,
          <<"bd.Database", "__len__", <<"ecoinvent-3.8-apos">> >>,
          <<"bd.Database", "__iter__", <<"ecoinvent-3.8-consequential">> >>,
          <<"bd.Database", "__len__", <<"ecoinvent-3.8-consequential">> >>,
          <<"rower.updating", "update_ecoinvent_definitions", ThreeNames>> >>

(* C5, amended: the calls of a successful run are one fixed sequence, but  *)
(* for one branch: delete_project("RoW generation", True) is called, right *)
(* after the membership test, exactly when the project is registered when  *)
(* the run starts.                                                         *)
C5_SameCallsButForDelete ==
    Succeeded => Signatures(calls) = ExpectedCalls(startExists)

C5_Witness ==
    /\ Succeeded
    /\ prev.status = "done"
    /\ Positions(IsDelete) # {}
    /\ \A k \in DOMAIN prev.calls : ~IsDelete(prev.calls[k])

(* C6 as stated: in every successful run at least one call is made on the  *)
(* release-access client after it is constructed.                          *)
C6_ClientIsUsed ==
    Succeeded =>
        \E k \in Positions(IsClient) :
            \E j \in DOMAIN calls : j > k /\ UsesClient(calls[j])

(* C6, amended: the client is constructed once, from the settings object   *)
(* constructed right before it, and is bound to `release`; no call of the  *)
(* run is made on it and it is handed to no call.                          *)
C6_ClientConstructedNotUsed ==
    /\ Cardinality(Positions(IsClient)) <= 1
    /\ \A k \in Positions(IsClient) :
        /\ calls[k].args = <<"my_settings">>
        /\ k > 1 /\ IsSettings(calls[k - 1]) /\ calls[k - 1].ok
    /\ \A k \in DOMAIN calls : ~UsesClient(calls[k])
    /\ Succeeded => /\ Cardinality(Positions(IsClient)) = 1
                    /\ release = "EcoinventRelease(Settings())"

C6_Witness ==
    /\ Succeeded
    /\ release = "EcoinventRelease(Settings())"
    /\ \A k \in DOMAIN calls : ~UsesClient(calls[k])

(* C7: delete_project("RoW generation", True) is called exactly when the   *)
(* project is registered at the start of the run (the delete flag being    *)
(* true), at most once and before the project is selected; a deletion that *)
(* returned has removed the project and its directory.  The project is     *)
(* then selected, and every import, every verification read and the update *)
(* are made with "RoW generation" as the current project.                  *)
C7_DeleteThenSelect ==
    /\ Cardinality(Positions(IsDelete)) <= 1
    /\ Cardinality(Positions(IsSelect)) <= 1
    /\ Positions(IsDelete) # {} => startExists
    /\ Positions(IsSelect) # {} /\ startExists => Positions(IsDelete) # {}
    /\ \A d \in Positions(IsDelete) :
        /\ calls[d].args = <<"RoW generation", "True">>
        /\ \A s \in Positions(IsSelect) : d < s /\ calls[d].ok
        /\ pc = "set_current" =>
               "RoW generation" \notin projects /\ DOMAIN dbs["RoW generation"] = {}
    /\ \A k \in DOMAIN calls :
        IsImport(calls[k]) \/ IsRead(calls[k]) \/ IsCount(calls[k]) \/ IsUpdate(calls[k])
        => /\ calls[k].cur = "RoW generation"
           /\ \E s \in Positions(IsSelect) : s < k /\ calls[s].ok
    /\ pc \in {"settings", "release", "import", "read", "assert", "print",
               "update", "done"}
        => current = "RoW generation" /\ "RoW generation" \in projects

\* the project was current when it was deleted, and the run completed
C7_Witness ==
    /\ Succeeded
    /\ startExists
    /\ \E d \in Positions(IsDelete) : calls[d].cur = "RoW generation"

(* C8: with the delete flag true the project holds no database when the    *)
(* first import is made; a successful run leaves exactly the three         *)
(* imported databases in it, and so does a successful run that follows a   *)
(* successful run.                                                         *)
C8_RerunLeavesSameDatabases ==
    /\ pc = "import" /\ Positions(IsImport) = {} =>
           current = "RoW generation" /\ DOMAIN dbs[current] = {}
    /\ Succeeded =>
           DOMAIN dbs["RoW generation"] = {ThreeNames[k] : k \in 1..3}
    /\ Succeeded /\ prev.status = "done" =>
           DOMAIN dbs["RoW generation"] = prev.dbs

C8_Witness ==
    /\ Succeeded
    /\ prev.status = "done"
    /\ Cardinality(prev.dbs) = 3

(* C9: the verification step only reads: no step from the end of the last  *)
(* import to the call of the updater changes the registered projects, the  *)
(* current project or the content of a database, whether the assertion     *)
(* passes or fails.                                                        *)
C9_VerificationOnlyReads ==
    [][(pc \in {"read", "assert", "print"}) => UNCHANGED store]_vars

C9_Witness ==
    /\ pc = "update"
    /\ Len(out) = 3
    /\ \E k \in 1..3 : Cardinality(Records(ThreeNames[k])) = 2

(* C10: every run ends, completed or failed, and has made by then at most  *)
(* one deletion, one selection, three imports, three read-backs (one       *)
(* iteration and one count per database) and one update; no call is made   *)
(* twice.                                                                  *)
C10_CallsBounded ==
    /\ Cardinality(Positions(IsDelete)) <= 1
    /\ Cardinality(Positions(IsSelect)) <= 1
    /\ Cardinality(Positions(IsImport)) <= 3
    /\ Cardinality(Positions(IsRead)) <= 3
    /\ Cardinality(Positions(IsCount)) <= 3
    /\ Cardinality(Positions(IsUpdate)) <= 1
    /\ \A j, k \in DOMAIN calls : j # k => Signature(calls[j]) # Signature(calls[k])

C10_EveryRunTerminates ==
    /\ []C10_CallsBounded
    /\ (pc \notin {"done", "failed"}) ~> (pc \in {"done", "failed"})

C10_Witness ==
    /\ Succeeded
    /\ run = 2
    /\ prev.status = "failed"
    /\ Len(calls) = 15

====
